---- MODULE Spec2Model ----
(***************************************************************************)
(* Model of src/tdd.py: the TestWatcher generate / verify / retry loop.    *)
(*                                                                         *)
(* Two threads run the program: the main thread (main -> initial_test_run  *)
(* -> process_test_failures, then the sleep loop) and the watchdog         *)
(* observer thread, which delivers on_modified callbacks one at a time.    *)
(* The oracle (claude.messages.create), the test runner (npm test) and the *)
(* user editing files are the environment: their results are drawn from    *)
(* small sets.  Texts are sequences of one-character strings.              *)
(***************************************************************************)
EXTENDS Integers, Sequences, FiniteSets, TLC

\* ------------------------------------------------------------------ bounds
MaxEdits == 2        \* filesystem events the environment produces in a run
MaxText == 3         \* length of the interior of a fenced block

\* --------------------------------------------------------- program constants
max_attempts == 5

\* ------------------------------------------------------------------- texts
\* The backquote character of a markdown fence (SANY rejects it in a string).
BT == "^"
NL == "\n"
SP == " "
\* Stand-ins for the jest report glyphs U+25CF and U+203A.
BULLET == "*"
ARROW == ">"
Letters == {"t", "s", "x", "y", "e", "c"}
White == {SP, NL}

\* The specification files of the tests directory, in glob order (line 86);
\* "a" stands for tests/a.test.ts and for its destination src/a.ts.
all_test_files == <<"a", "b">>
Files == { all_test_files[i] : i \in 1..Len(all_test_files) }
\* The texts a specification file may hold.
Contents == {"spec1", "spec2"}

\* Oracle responses: a fenced block with a language tag, and bare text.
Responses ==
  { <<BT, BT, BT, "t", "s", NL, "x", NL, BT, BT, BT>>,
    <<"y">> }

\* Runner diagnostics: nothing, a jest failure report line, a plain error.
Stderrs ==
  { <<>>,
    <<BULLET, SP, "t", SP, ARROW, SP, "x", NL>>,
    <<"e", NL>> }

Min(S) == CHOOSE x \in S : \A y \in S : x <= y

\* ------------------------------------------------- extract_code_from_response
FenceAt(s, i) ==
  /\ i >= 1
  /\ i + 2 <= Len(s)
  /\ s[i] = BT /\ s[i + 1] = BT /\ s[i + 2] = BT

\* [a-zA-Z]+ taken greedily from position i: the number of letters there.
RECURSIVE TagLen(_, _)
TagLen(s, i) ==
  IF i <= Len(s) /\ s[i] \in Letters THEN 1 + TagLen(s, i + 1) ELSE 0

\* Position of the "\n" that ends the opening fence that starts at i.
OpenEnd(s, i) == i + 3 + TagLen(s, i + 3)

\* A newline followed by a closing fence, at position e.
CloseAt(s, e) == e <= Len(s) /\ s[e] = NL /\ FenceAt(s, e + 1)

Closings(s, i) == { e \in (OpenEnd(s, i) + 1)..Len(s) : CloseAt(s, e) }

MatchAt(s, i) ==
  /\ FenceAt(s, i)
  /\ OpenEnd(s, i) <= Len(s)
  /\ s[OpenEnd(s, i)] = NL
  /\ Closings(s, i) # {}

extract_code_from_response(response) ==
  LET starts == { i \in 1..Len(response) : MatchAt(response, i) }
  IN IF starts # {}
       THEN LET i == Min(starts)
                e == Min(Closings(response, i))
            IN SubSeq(response, OpenEnd(response, i) + 1, e - 1)
       ELSE response

\* ----------------------------------------------------------- hash_file_content
\* SHA-256 of the text: a digest, distinct from the text, equal for equal texts.
hash_file_content(content) == <<"sha256", content>>

\* error_messages.replace("\n", " ")
replace_newlines(text) ==
  [ k \in 1..Len(text) |-> IF text[k] = NL THEN SP ELSE text[k] ]

\* ------------------------------------------------ extract_failing_test_names
\* The class [A-Za-z0-9\s`_] of the captured title.
NameChars == Letters \cup White \cup {BT, "_"}

\* First position at or after i that holds no title character.
RECURSIVE RunEnd(_, _)
RunEnd(s, i) ==
  IF i <= Len(s) /\ s[i] \in NameChars THEN RunEnd(s, i + 1) ELSE i

\* First position at or after i that holds a newline (".*" stops there).
RECURSIVE LineEnd(_, _)
LineEnd(s, i) ==
  IF i <= Len(s) /\ s[i] # NL THEN LineEnd(s, i + 1) ELSE i

\* str.strip()
RECURSIVE Strip(_)
Strip(t) ==
  IF t = <<>> THEN t
  ELSE IF Head(t) \in White THEN Strip(Tail(t))
  ELSE IF t[Len(t)] \in White THEN Strip(SubSeq(t, 1, Len(t) - 1))
  ELSE t

\* The pattern matches at i: the glyph, whitespace, a title, whitespace, the
\* arrow.  The title run ends at the first character outside the class, which
\* must be the arrow.
NameMatchAt(s, i) ==
  LET p == RunEnd(s, i + 1)
  IN /\ i <= Len(s) /\ s[i] = BULLET
     /\ p <= Len(s) /\ s[p] = ARROW
     /\ p - i - 1 >= 3
     /\ s[i + 1] \in White
     /\ s[p - 1] \in White

\* re.findall from position i on, each match stripped.
RECURSIVE FailingFrom(_, _)
FailingFrom(s, i) ==
  IF i > Len(s) THEN <<>>
  ELSE IF NameMatchAt(s, i)
    THEN LET p == RunEnd(s, i + 1)
         IN <<Strip(SubSeq(s, i + 1, p - 1))>> \o FailingFrom(s, LineEnd(s, p))
    ELSE FailingFrom(s, i + 1)

extract_failing_test_names(stderr) == FailingFrom(stderr, 1)

\* ------------------------------------------------------------------ prompt
\* The f-string of lines 99-106 and 164-171: the feedback sentence is used
\* only when error_messages is a non-empty string.
BuildPrompt(error_messages, failed_tests, test_content) ==
  IF error_messages # <<>>
    THEN [ feedback |-> TRUE, failed_tests |-> failed_tests,
           error_messages |-> error_messages, test_content |-> test_content ]
    ELSE [ feedback |-> FALSE, failed_tests |-> <<>>,
           error_messages |-> <<>>, test_content |-> test_content ]

\* ------------------------------------------------------------------- state
VARIABLES
  cache,                 \* self.cache: fingerprint -> accepted code
  initial_run_complete,  \* self.initial_run_complete
  tests,                 \* tests/<f>.test.ts: the text of each specification
  srcs,                  \* src/<f>.ts: the text of each destination, or Absent
  event_queue,           \* the observer's queue of filesystem events
  edits,                 \* events produced so far
  main,                  \* the main thread: position and locals
  watcher,               \* the observer thread: position and locals
  exited,                \* the process has ended (sys.exit on the main thread)
  trace                  \* what the run has done so far, kept for the properties

vars == << cache, initial_run_complete, tests, srcs, event_queue, edits,
           main, watcher, exited, trace >>

Absent == << "absent" >>     \* no such file (no text holds this character)
NoFile == "other"        \* a path that does not end in .test.ts
NoText == <<>>
NoContent == "unset"
NoPrompt == [ feedback |-> FALSE, failed_tests |-> <<>>,
              error_messages |-> <<>>, test_content |-> NoContent ]

\* What run_command returns when the command is found.
Results == [ returncode : {0, 1}, stderr : Stderrs ]

\* event.src_path.endswith('.test.ts')
EndsWithTestTs(path) == path \in Files

InCache(h) == h \in DOMAIN cache

\* self.cache[test_hash] = code
CachePut(c, h, code) ==
  [ k \in DOMAIN c \cup {h} |-> IF k = h THEN code ELSE c[k] ]

\* del self.cache[test_hash]
CacheDel(c, h) == [ k \in DOMAIN c \ {h} |-> c[k] ]

NoCode == -1             \* no result of the initial run is held
NoRun == << "-" >>       \* no verification of the unit has failed so far

\* The main thread before initial_test_run; its locals are unset.  returncode
\* and passing belong to the result of the initial run (line 72): its exit
\* code and the files whose tests all passed in it.
MainInit ==
  [ pc |-> "initial_test_run", idx |-> 0, test_content |-> NoContent,
    success |-> FALSE, attempts |-> 0,
    error_messages |-> NoText, failed_tests |-> <<>>,
    code |-> NoText, prompt |-> NoPrompt,
    returncode |-> NoCode, passing |-> {} ]

\* The observer thread between callbacks; the locals of process_test_file
\* are unset.
WatcherInit ==
  [ pc |-> "idle", path |-> NoFile, test_content |-> NoContent, test_hash |-> <<>>,
    success |-> FALSE, attempts |-> 0,
    error_messages |-> NoText, failed_tests |-> <<>>,
    code |-> NoText, prompt |-> NoPrompt ]

\* The record of observations: oracle invocations, destination writes and
\* runner invocations of the unit each thread is in (zero between units), and
\* what the startup pass has touched.
TraceInit ==
  [ m_calls |-> 0, m_writes |-> 0, m_runs |-> 0,
    w_calls |-> 0, w_writes |-> 0, w_runs |-> 0,
    w_hit |-> FALSE,        \* the run took the cache-hit branch
    w_hit_rc |-> "none",    \* result of verifying the cached code
    m_from |-> "none",      \* the run that main's error_messages came from:
                            \*   "initial", or the file whose run it was
    m_stderr |-> NoRun,     \* result.stderr of the unit's last failed
    w_stderr |-> NoRun,     \*   verification, per thread
    asked |-> {},           \* files the startup pass invoked the oracle for
    written |-> {},         \* files the startup pass wrote a destination for
    exhausted |-> FALSE,    \* some unit has used up its attempts
    ignored |-> FALSE ]     \* an event was dropped before startup completed

Init ==
  /\ cache = << >>
  /\ initial_run_complete = FALSE
  /\ tests = [f \in Files |-> "spec1"]
  /\ srcs = [f \in Files |-> Absent]
  /\ event_queue = << >>
  /\ edits = 0
  /\ main = MainInit
  /\ watcher = WatcherInit
  /\ exited = FALSE
  /\ trace = TraceInit

\* ------------------------------------------------------- shared code paths
\* Variant: the bound compared with <= (one attempt too many).
LoopContinuesOffByOne(success, attempts) ==
  ~success /\ attempts <= max_attempts

\* Variant: the loop goes on after a pass until the attempts are used up.
LoopContinuesAfterPass(success, attempts) == attempts < max_attempts

\* The loop condition of lines 98 and 163.
LoopContinues(success, attempts) == ~success /\ attempts < max_attempts

\* Variant: the destination is created when missing and otherwise left alone.
WriteCodeIfMissing(f, code) ==
  srcs' = IF srcs[f] = Absent THEN [srcs EXCEPT ![f] = code] ELSE srcs

\* write_code_and_run_tests, first half (lines 218-224): the destination of
\* the specification is replaced by the code.
WriteCode(f, code) == srcs' = [srcs EXCEPT ![f] = code]

\* The exit code of the full-suite run: zero iff every file's tests pass.
SuiteCode(passing) == IF passing = Files THEN 0 ELSE 1

\* ------------------------------------------------------------ main thread
\* The loop variable of line 88.
test_path == all_test_files[main.idx]

\* Variant: process_test_failures is entered whatever the exit code.
AfterInitialRunAlways(rc, stderr, passing) ==
  [main EXCEPT !.pc = "for", !.idx = 1,
     !.returncode = rc, !.passing = passing,
     !.error_messages = replace_newlines(stderr),
     !.failed_tests = extract_failing_test_names(stderr)]

\* What initial_test_run does with the result of the full-suite run, lines
\* 73-76 and 82-86: a failing run enters process_test_failures.
AfterInitialRun(rc, stderr, passing) ==
  IF rc # 0
    THEN [main EXCEPT !.pc = "for", !.idx = 1,
            !.returncode = rc, !.passing = passing,
            !.error_messages = replace_newlines(stderr),
            !.failed_tests = extract_failing_test_names(stderr)]
    ELSE [main EXCEPT !.pc = "set_complete",
            !.returncode = rc, !.passing = passing]

\* initial_test_run, line 72.  run_command either returns or, when npm is
\* not found, ends the process.
InitialRun ==
  /\ ~exited /\ main.pc = "initial_test_run"
  /\ \/ /\ exited' = TRUE
        /\ main' = [main EXCEPT !.pc = "exit"]
        /\ UNCHANGED trace
     \/ \E passing \in SUBSET Files, stderr \in Stderrs :
          /\ exited' = exited
          /\ main' = AfterInitialRun(SuiteCode(passing), stderr, passing)
          /\ trace' = [trace EXCEPT !.m_from = IF main'.pc = "for"
                                                THEN "initial" ELSE @]
  /\ UNCHANGED << cache, initial_run_complete, tests, srcs, event_queue,
                  edits, watcher >>

\* The for loop of line 88 with lines 89-96: the next file is read and the
\* attempt counter reset; after the last file process_test_failures returns
\* and its locals are gone.
StartupNextFile ==
  /\ ~exited /\ main.pc = "for"
  /\ \/ /\ main.idx <= Len(all_test_files)
        /\ main' = [main EXCEPT !.pc = "while",
                      !.test_content = tests[test_path],
                      !.success = FALSE, !.attempts = 0,
                      !.code = NoText, !.prompt = NoPrompt]
     \/ /\ main.idx > Len(all_test_files)
        /\ main' = [MainInit EXCEPT !.pc = "set_complete",
                      !.returncode = main.returncode,
                      !.passing = main.passing]
  /\ UNCHANGED trace
  /\ UNCHANGED << cache, initial_run_complete, tests, srcs, event_queue,
                  edits, watcher, exited >>

\* Lines 98-127: the prompt is built, the oracle is invoked and the code is
\* extracted from its response.
StartupAsk ==
  /\ ~exited /\ main.pc = "while"
  /\ LoopContinues(main.success, main.attempts)
  /\ \E response \in Responses :
       main' = [main EXCEPT !.pc = "write",
                  !.prompt = BuildPrompt(main.error_messages,
                                         main.failed_tests, main.test_content),
                  !.code = extract_code_from_response(response)]
  /\ trace' = [trace EXCEPT !.m_calls = @ + 1, !.asked = @ \cup {test_path}]
  /\ UNCHANGED << cache, initial_run_complete, tests, srcs, event_queue,
                  edits, watcher, exited >>

\* Variant: using up the attempts ends the process.
AfterStartupLoopFatal ==
  IF main.success
    THEN [main EXCEPT !.pc = "for", !.idx = @ + 1]
    ELSE [main EXCEPT !.pc = "exit"]

\* Variant: the loop variable of line 88 does not advance.
AfterStartupLoopSameFile == [main EXCEPT !.pc = "for"]

\* Where the startup pass goes when the while loop of line 98 ends, with a
\* pass or with the attempts used up: on to the next file.
AfterStartupLoop == [main EXCEPT !.pc = "for", !.idx = @ + 1]

StartupLeave ==
  /\ ~exited /\ main.pc = "while"
  /\ ~LoopContinues(main.success, main.attempts)
  /\ main' = AfterStartupLoop
  /\ exited' = (main'.pc = "exit")
  /\ trace' = [trace EXCEPT !.exhausted = @ \/ ~main.success,
                 !.m_calls = 0, !.m_writes = 0, !.m_runs = 0,
                 !.m_stderr = NoRun]
  /\ UNCHANGED << cache, initial_run_complete, tests, srcs, event_queue,
                  edits, watcher >>

\* Line 128 into write_code_and_run_tests, lines 218-224.
StartupWrite ==
  /\ ~exited /\ main.pc = "write"
  /\ WriteCode(test_path, main.code)
  /\ main' = [main EXCEPT !.pc = "run"]
  /\ trace' = [trace EXCEPT !.m_writes = @ + 1, !.written = @ \cup {test_path}]
  /\ UNCHANGED << cache, initial_run_complete, tests, event_queue, edits,
                  watcher, exited >>

\* The locals of the startup pass after a run, lines 129-136.  The prompt of
\* a failed attempt is not read again.
StartupAfterRun(result) ==
  IF result.returncode = 0
    THEN [main EXCEPT !.pc = "while", !.success = TRUE, !.attempts = @ + 1]
    ELSE [main EXCEPT !.pc = "while",
            !.error_messages = replace_newlines(result.stderr),
            !.failed_tests = extract_failing_test_names(result.stderr),
            !.prompt = NoPrompt,
            !.attempts = @ + 1]

\* Line 227 (run_command scoped to the file), then lines 129-136, which
\* leave the cache alone.
StartupRun ==
  /\ ~exited /\ main.pc = "run"
  /\ \/ /\ exited' = TRUE
        /\ main' = [main EXCEPT !.pc = "exit"]
        /\ UNCHANGED trace
     \/ \E result \in Results :
          /\ exited' = exited
          /\ main' = StartupAfterRun(result)
          /\ trace' = [trace EXCEPT !.m_runs = @ + 1,
                         !.m_from = IF result.returncode = 0
                                      THEN @ ELSE test_path,
                         !.m_stderr = IF result.returncode = 0
                                        THEN @ ELSE result.stderr]
  /\ UNCHANGED << cache, initial_run_complete, tests, srcs, event_queue,
                  edits, watcher >>

\* Line 77; main then stays in the sleep loop of lines 275-276.
SetComplete ==
  /\ ~exited /\ main.pc = "set_complete"
  /\ initial_run_complete' = TRUE
  /\ main' = [MainInit EXCEPT !.pc = "sleep"]
  /\ trace' = [trace EXCEPT !.m_from = "none"]
  /\ UNCHANGED << cache, tests, srcs, event_queue, edits, watcher, exited >>

\* ---------------------------------------------------------- observer thread
\* Variant: the startup flag is not consulted.
AcceptsUngated(event) ==
  /\ ~event.is_directory
  /\ EndsWithTestTs(event.src_path)

\* The guards of on_modified, lines 64-65.
Accepts(event) ==
  /\ initial_run_complete
  /\ ~event.is_directory
  /\ EndsWithTestTs(event.src_path)

\* The observations of a change-triggered unit end with the unit.
UnitOver(t) ==
  [t EXCEPT !.w_calls = 0, !.w_writes = 0, !.w_runs = 0,
            !.w_hit = FALSE, !.w_hit_rc = "none", !.w_stderr = NoRun]

\* on_modified, lines 63-67: the observer takes the next event; one that
\* passes the guards is slept on and then processed, any other is dropped.
OnModified ==
  /\ ~exited /\ watcher.pc = "idle"
  /\ event_queue # << >>
  /\ event_queue' = Tail(event_queue)
  /\ LET event == Head(event_queue) IN
       IF Accepts(event)
         THEN /\ watcher' = [watcher EXCEPT !.pc = "sleep",
                               !.path = event.src_path]
              /\ UNCHANGED trace
         ELSE /\ watcher' = watcher
              /\ trace' = [trace EXCEPT !.ignored = @ \/ ~initial_run_complete]
  /\ UNCHANGED << cache, initial_run_complete, tests, srcs, edits, main,
                  exited >>

\* Variant: the cache is not consulted.
CacheHitNever(c, test_hash) == FALSE

\* The branch of line 149: the cached code is used iff the fingerprint is a
\* key of the cache.
CacheHit(c, test_hash) == test_hash \in DOMAIN c

\* process_test_file, lines 144-161, after the sleep of line 67: the file is
\* read and fingerprinted; on a cache hit the cached code is taken, otherwise
\* the loop's locals are initialised.
ChangeRead ==
  /\ ~exited /\ watcher.pc = "sleep"
  /\ LET test_content == tests[watcher.path]
         test_hash == hash_file_content(test_content)
     IN /\ watcher' =
             IF CacheHit(cache, test_hash)
               THEN [watcher EXCEPT !.pc = "hit_write",
                       !.test_content = test_content, !.test_hash = test_hash,
                       !.code = cache[test_hash]]
               ELSE [watcher EXCEPT !.pc = "while",
                       !.test_content = test_content, !.test_hash = test_hash]
        /\ trace' = [trace EXCEPT !.w_hit = CacheHit(cache, test_hash)]
  /\ UNCHANGED << cache, initial_run_complete, tests, srcs, event_queue,
                  edits, main, exited >>

\* Line 152 into write_code_and_run_tests, lines 218-224, with the cached code.
HitWrite ==
  /\ ~exited /\ watcher.pc = "hit_write"
  /\ WriteCode(watcher.path, watcher.code)
  /\ watcher' = [watcher EXCEPT !.pc = "hit_run"]
  /\ trace' = [trace EXCEPT !.w_writes = @ + 1]
  /\ UNCHANGED << cache, initial_run_complete, tests, event_queue, edits,
                  main, exited >>

\* Line 227 for the cached code; the result is dropped (line 152 binds
\* nothing).  FileNotFoundError raises SystemExit on the observer thread,
\* which ends that thread only.
HitRun ==
  /\ ~exited /\ watcher.pc = "hit_run"
  /\ \/ /\ watcher' = [watcher EXCEPT !.pc = "dead"]
        /\ UNCHANGED trace
     \/ \E result \in Results :
          /\ watcher' = [watcher EXCEPT !.pc = "hit_return"]
          /\ trace' = [trace EXCEPT !.w_runs = @ + 1,
                         !.w_hit_rc = IF result.returncode = 0
                                        THEN "pass" ELSE "fail"]
  /\ UNCHANGED << cache, initial_run_complete, tests, srcs, event_queue,
                  edits, main, exited >>

\* Variant: a failed run of the cached code falls into the drafting loop.
AfterHitRedraft(hit_rc) ==
  IF hit_rc = "fail" THEN [watcher EXCEPT !.pc = "while"] ELSE WatcherInit

\* Variant: a failed run of the cached code is tried again.
AfterHitRetry(hit_rc) ==
  IF hit_rc = "fail" THEN [watcher EXCEPT !.pc = "hit_write"] ELSE WatcherInit

\* Line 153: process_test_file returns after the run of the cached code,
\* whatever its result was.
AfterHit(hit_rc) == WatcherInit

HitReturn ==
  /\ ~exited /\ watcher.pc = "hit_return"
  /\ watcher' = AfterHit(trace.w_hit_rc)
  /\ trace' = IF watcher'.pc = "idle" THEN UnitOver(trace) ELSE trace
  /\ UNCHANGED << cache, initial_run_complete, tests, srcs, event_queue,
                  edits, main, exited >>

\* Lines 163-195: prompt, oracle invocation, extraction.
ChangeAsk ==
  /\ ~exited /\ watcher.pc = "while"
  /\ LoopContinues(watcher.success, watcher.attempts)
  /\ \E response \in Responses :
       watcher' = [watcher EXCEPT !.pc = "write",
                     !.prompt = BuildPrompt(watcher.error_messages,
                                  watcher.failed_tests, watcher.test_content),
                     !.code = extract_code_from_response(response)]
  /\ trace' = [trace EXCEPT !.w_calls = @ + 1]
  /\ UNCHANGED << cache, initial_run_complete, tests, srcs, event_queue,
                  edits, main, exited >>

\* Where the observer goes when the while loop of line 163 ends, with a pass
\* or with the attempts used up: process_test_file returns.
AfterChangeLoop == WatcherInit

ChangeLeave ==
  /\ ~exited /\ watcher.pc = "while"
  /\ ~LoopContinues(watcher.success, watcher.attempts)
  /\ watcher' = AfterChangeLoop
  /\ trace' = [UnitOver(trace) EXCEPT !.exhausted = @ \/ ~watcher.success]
  /\ UNCHANGED << cache, initial_run_complete, tests, srcs, event_queue,
                  edits, main, exited >>

\* Line 196 into write_code_and_run_tests, lines 218-224.
ChangeWrite ==
  /\ ~exited /\ watcher.pc = "write"
  /\ WriteCode(watcher.path, watcher.code)
  /\ watcher' = [watcher EXCEPT !.pc = "run"]
  /\ trace' = [trace EXCEPT !.w_writes = @ + 1]
  /\ UNCHANGED << cache, initial_run_complete, tests, event_queue, edits,
                  main, exited >>

\* Lines 197-203: the cache after a run of generated code.
CacheAfterRun(c, test_hash, code, result) ==
  IF result.returncode = 0
    THEN CachePut(c, test_hash, code)
    ELSE IF test_hash \in DOMAIN c THEN CacheDel(c, test_hash) ELSE c

\* Lines 197-209: the locals after a run of generated code.  The prompt of a
\* failed attempt is not read again.
ChangeAfterRun(result) ==
  IF result.returncode = 0
    THEN [watcher EXCEPT !.pc = "while", !.success = TRUE, !.attempts = @ + 1]
    ELSE [watcher EXCEPT !.pc = "while",
            !.error_messages = replace_newlines(result.stderr),
            !.failed_tests = extract_failing_test_names(result.stderr),
            !.prompt = NoPrompt,
            !.attempts = @ + 1]

\* Line 227 for generated code, then lines 197-209.
ChangeRun ==
  /\ ~exited /\ watcher.pc = "run"
  /\ \/ /\ watcher' = [watcher EXCEPT !.pc = "dead"]
        /\ UNCHANGED << cache, trace >>
     \/ \E result \in Results :
          /\ watcher' = ChangeAfterRun(result)
          /\ cache' = CacheAfterRun(cache, watcher.test_hash, watcher.code,
                                    result)
          /\ trace' = [trace EXCEPT !.w_runs = @ + 1,
                         !.w_stderr = IF result.returncode = 0
                                        THEN @ ELSE result.stderr]
  /\ UNCHANGED << initial_run_complete, tests, srcs, event_queue, edits,
                  main, exited >>

\* ------------------------------------------------------------- environment
\* The user saves a specification file (possibly with the text it already
\* had): the file changes and the observer queues a modification event.
UserEdit ==
  /\ ~exited /\ edits < MaxEdits
  /\ \E f \in Files, text \in Contents :
       /\ tests' = [tests EXCEPT ![f] = text]
       /\ event_queue' = Append(event_queue,
                                [is_directory |-> FALSE, src_path |-> f])
  /\ edits' = edits + 1
  /\ UNCHANGED << cache, initial_run_complete, srcs, main, watcher, exited,
                  trace >>

\* Any other modification in the tests directory: the directory itself, or a
\* file that is no specification.
OtherEvent ==
  /\ ~exited /\ edits < MaxEdits
  /\ \E d \in BOOLEAN :
       event_queue' = Append(event_queue,
                             [is_directory |-> d, src_path |-> NoFile])
  /\ edits' = edits + 1
  /\ UNCHANGED << cache, initial_run_complete, tests, srcs, main, watcher,
                  exited, trace >>

Next ==
  \/ InitialRun \/ StartupNextFile \/ StartupAsk \/ StartupLeave
  \/ StartupWrite \/ StartupRun \/ SetComplete
  \/ OnModified \/ ChangeRead \/ HitWrite \/ HitRun \/ HitReturn
  \/ ChangeAsk \/ ChangeLeave \/ ChangeWrite \/ ChangeRun
  \/ UserEdit \/ OtherEvent

Spec == Init /\ [][Next]_vars

\* The steps of each thread.  Every oracle call and every subprocess returns,
\* and the scheduler lets a thread that can run take its next step.
MainStep ==
  \/ InitialRun \/ StartupNextFile \/ StartupAsk \/ StartupLeave
  \/ StartupWrite \/ StartupRun \/ SetComplete

ObserverStep ==
  \/ OnModified \/ ChangeRead \/ HitWrite \/ HitRun \/ HitReturn
  \/ ChangeAsk \/ ChangeLeave \/ ChangeWrite \/ ChangeRun

FairSpec == Spec /\ WF_vars(MainStep) /\ WF_vars(ObserverStep)

\* ------------------------------------- extract_code_from_response on its own
\* The function applied once to one response.  Here trace holds the call: the
\* response, how it was put together, and the value returned.
TextChars == {"x", NL, BT}

RECURSIVE TextsOfLen(_)
TextsOfLen(n) ==
  IF n = 0 THEN { <<>> }
  ELSE { Append(t, ch) : t \in TextsOfLen(n - 1), ch \in TextChars }

HasFence(s) == \E i \in 1..Len(s) : FenceAt(s, i)

\* Texts without a fence of their own.
Texts == { t \in UNION { TextsOfLen(n) : n \in 0..MaxText } : ~HasFence(t) }

\* Language tags of an opening fence: none, "ts", "c++".
NoTag == <<>>
Tags == { NoTag, <<"t", "s">>, <<"c", "+", "+">> }

\* Prose the oracle may put before and after the block.
Before == { <<>>, <<"y", NL>> }
After == { <<>>, <<NL, "y">> }

\* A response with one fenced block whose interior is text.
Fenced(before, tag, text, after) ==
  before \o <<BT, BT, BT>> \o tag \o <<NL>> \o text \o <<NL>>
         \o <<BT, BT, BT>> \o after

Calls ==
  { [ pc |-> "call", fenced |-> TRUE, tag |-> tag, text |-> text,
      response |-> Fenced(before, tag, text, after), code |-> NoText ] :
      before \in Before, tag \in Tags, text \in Texts, after \in After }
  \cup
  { [ pc |-> "call", fenced |-> FALSE, tag |-> NoTag, text |-> text,
      response |-> text, code |-> NoText ] : text \in Texts }

ExtractInit ==
  /\ cache = << >>
  /\ initial_run_complete = FALSE
  /\ tests = [f \in Files |-> "spec1"]
  /\ srcs = [f \in Files |-> Absent]
  /\ event_queue = << >>
  /\ edits = 0
  /\ main = MainInit
  /\ watcher = WatcherInit
  /\ exited = FALSE
  /\ trace \in Calls

\* code_block_regex.search(response) finds a match.
HasMatch(response) == \E i \in 1..Len(response) : MatchAt(response, i)

\* Lines 42-45: the pattern matches and group 1 is returned.
ExtractMatch ==
  /\ trace.pc = "call" /\ HasMatch(trace.response)
  /\ trace' = [trace EXCEPT !.pc = "return",
                 !.code = extract_code_from_response(trace.response)]
  /\ UNCHANGED << cache, initial_run_complete, tests, srcs, event_queue,
                  edits, main, watcher, exited >>

\* Lines 46-49: no match, the response itself is returned.
ExtractNoMatch ==
  /\ trace.pc = "call" /\ ~HasMatch(trace.response)
  /\ trace' = [trace EXCEPT !.pc = "return",
                 !.code = extract_code_from_response(trace.response)]
  /\ UNCHANGED << cache, initial_run_complete, tests, srcs, event_queue,
                  edits, main, watcher, exited >>

ExtractNext == ExtractMatch \/ ExtractNoMatch

SpecExtract == ExtractInit /\ [][ExtractNext]_vars

\* =================================================================== claims

\* C1 (attempt bound): a unit of work, in the startup pass (one file of
\* process_test_failures) and in a change-triggered run (process_test_file)
\* alike, never makes more than 5 oracle invocations: after the fifth failed
\* verification there is no sixth.
C1_AttemptBound ==
  /\ trace.m_calls <= 5
  /\ trace.w_calls <= 5

\* A change-triggered unit stands at the loop head after its fifth failed
\* verification, and an earlier unit has already been exhausted.
C1_Witness ==
  /\ watcher.pc = "while" /\ ~watcher.success
  /\ trace.w_calls = 5 /\ trace.w_runs = 5
  /\ trace.exhausted

\* C2 (cache correctness): a process_test_file run whose fingerprint is found
\* in the cache makes no oracle invocation, whichever file it is for and
\* whatever the verification of the cached code returns.
C2_CacheCorrectness == trace.w_hit => trace.w_calls = 0

\* A cache hit for file b whose verification of the cached code has failed.
C2_Witness ==
  /\ watcher.pc = "hit_return" /\ watcher.path = "b"
  /\ trace.w_hit /\ trace.w_hit_rc = "fail"
\* C3 (cache invalidation), as claimed: once the verification of the cached
\* code has failed, the cache holds no entry for the fingerprint.
C3_CacheInvalidation ==
  (watcher.pc = "hit_return" /\ trace.w_hit_rc = "fail")
    => ~InCache(watcher.test_hash)

\* C4 (stale-cache fallback), as claimed: the step that follows the run of
\* the cached code enters the drafting loop when the run failed, and ends
\* the unit when it passed.
C4_StaleCacheFallback ==
  [][ (watcher.pc = "hit_return" /\ watcher' # watcher)
        => IF trace.w_hit_rc = "fail"
             THEN watcher'.pc = "while"
             ELSE watcher'.pc = "idle" ]_vars

C6_AcceptanceUpdatesCache ==
  /\ main.success =>
       /\ InCache(hash_file_content(main.test_content))
       /\ cache[hash_file_content(main.test_content)] = main.code
  /\ watcher.success =>
       /\ InCache(watcher.test_hash)
       /\ cache[watcher.test_hash] = watcher.code

\* C7 (selective regeneration), as claimed: the startup pass invokes the
\* oracle for, and writes the destination of, no file whose tests all passed
\* in the initial full-suite run.
C7_SelectiveRegeneration ==
  (trace.asked \cup trace.written) \cap main.passing = {}

\* C8 (healthy start): when the initial full-suite run exits 0,
\* initial_test_run reaches the assignment of line 77 having invoked the
\* oracle for no file and written no destination.
C8_HealthyStart ==
  (main.pc = "set_complete" /\ main.returncode = 0) =>
    /\ trace.asked = {} /\ trace.written = {}
    /\ trace.m_calls = 0 /\ trace.m_writes = 0
    /\ \A f \in Files : srcs[f] = Absent

\* The initial run has passed and line 77 is next, with a change event
\* already waiting in the queue.
C8_Witness ==
  /\ main.pc = "set_complete" /\ main.returncode = 0
  /\ event_queue # << >>

\* C9 (exhaustion is isolated): the step that ends a unit whose attempts
\* are used up raises nothing: in the startup pass it moves on to the next
\* file with the process alive, in a change-triggered run it returns the
\* observer to waiting; the startup pass reaches line 77 only with every
\* file processed.
C9_ExhaustionIsolated ==
  /\ [][ ( /\ main.pc = "while" /\ ~main.success
           /\ main.attempts = 5 /\ main' # main )
         => ( /\ main'.pc = "for" /\ main'.idx = main.idx + 1
              /\ ~exited' /\ watcher'.pc # "dead" ) ]_vars
  /\ [][ ( /\ watcher.pc = "while" /\ ~watcher.success
           /\ watcher.attempts = 5 /\ watcher' # watcher )
         => ( watcher'.pc = "idle" /\ ~exited' ) ]_vars
  /\ []( (main.pc = "set_complete" /\ main.returncode # 0)
         => trace.asked = Files )
  /\ []( (trace.exhausted /\ main.pc = "sleep") => initial_run_complete )

\* A file of the startup pass used up its attempts (the observer is in the
\* first unit it was handed, so the exhausted unit was the main thread's);
\* the pass has completed all the same, every file was asked for, and a
\* change event is being reconciled.
C9_Witness ==
  /\ trace.exhausted /\ initial_run_complete /\ ~exited
  /\ trace.asked = Files
  /\ edits = 1 /\ event_queue = << >> /\ ~trace.ignored
  /\ watcher.pc = "run"

\* C10 (startup gating): while initial_run_complete is false the observer
\* starts no process_test_file: it stays waiting and makes no oracle
\* invocation, destination write or runner invocation; the flag is true only
\* once the main thread has left initial_test_run, and it never goes back to
\* false.
C10_StartupGating ==
  /\ []( ~initial_run_complete =>
           /\ watcher = WatcherInit
           /\ trace.w_calls = 0 /\ trace.w_writes = 0 /\ trace.w_runs = 0 )
  /\ []( initial_run_complete => main.pc = "sleep" )
  /\ [][ initial_run_complete => initial_run_complete' ]_vars

\* An event for a specification was dropped during the startup pass; after
\* the pass a later event is being reconciled.
C10_Witness ==
  /\ trace.ignored /\ initial_run_complete
  /\ watcher.pc = "run"
\* C11 (no overlapping synthesis): under every interleaving of the two
\* threads at most one of them is inside an attempt; the observer is inside
\* process_test_file only while the main thread sleeps; and between an
\* attempt's write and the end of its verification no destination changes.
C11_NoOverlap ==
  /\ []( ~( main.pc \in {"write", "run"}
            /\ watcher.pc \in {"write", "run", "hit_write", "hit_run"} ) )
  /\ []( watcher.pc \in {"sleep", "while", "write", "run", "hit_write",
                         "hit_run", "hit_return"}
           => main.pc = "sleep" )
  /\ [][ (main.pc = "run" \/ watcher.pc \in {"run", "hit_run"})
           => srcs' = srcs ]_vars

\* The main thread is between the write and the verification of an attempt
\* while a change event waits in the queue and an earlier one was dropped.
C11_Witness ==
  /\ main.pc = "run" /\ trace.ignored
  /\ event_queue # << >>

\* C12 (missing runner is fatal), as claimed: whichever thread meets
\* FileNotFoundError in run_command, the process has ended.
C12_MissingRunnerFatal ==
  (main.pc = "exit" \/ watcher.pc = "dead") => exited
\* C13 (feedback chaining), as claimed: the prompt of every attempt after
\* the first of a unit carries the feedback sentence with the stderr (newlines
\* turned into spaces, as the code passes it on) of the verification that
\* failed just before it, whatever that stderr was.
C13_FeedbackChaining ==
  /\ (main.pc = "write" /\ main.attempts > 0)
       => /\ main.prompt.feedback
          /\ main.prompt.error_messages = replace_newlines(trace.m_stderr)
  /\ (watcher.pc = "write" /\ watcher.attempts > 0)
       => /\ watcher.prompt.feedback
          /\ watcher.prompt.error_messages = replace_newlines(trace.w_stderr)
\* C14 (extraction round trip), as claimed: extract_code_from_response
\* returns the interior of the one fenced block of a response, whatever the
\* language tag of the opening fence, and returns a response without a
\* fenced block as it is.
C14_ExtractionRoundTrip ==
  trace.pc = "return"
    => trace.code = (IF trace.fenced THEN trace.text ELSE trace.response)
\* C15 (stop on first pass): within a unit an oracle invocation after the
\* first follows only failed verifications, one per earlier invocation; and
\* once a verification has returned exit code 0 the unit makes no further
\* oracle invocation, destination write or test run: its thread's next step
\* leaves the loop.
C15_StopOnFirstPass ==
  /\ []( main.pc \in {"write", "run"}
           => ~main.success /\ trace.m_runs = trace.m_calls - 1
                            /\ main.attempts = trace.m_runs )
  /\ []( watcher.pc \in {"write", "run"}
           => ~watcher.success /\ trace.w_runs = trace.w_calls - 1
                               /\ watcher.attempts = trace.w_runs )
  /\ [][ (main.pc = "while" /\ main.success)
           => /\ trace'.m_calls <= trace.m_calls
              /\ trace'.m_writes <= trace.m_writes
              /\ trace'.m_runs <= trace.m_runs
              /\ srcs' = srcs
              /\ main' # main => main'.pc = "for" ]_vars
  /\ [][ (watcher.pc = "while" /\ watcher.success)
           => /\ trace'.w_calls <= trace.w_calls
              /\ trace'.w_writes <= trace.w_writes
              /\ trace'.w_runs <= trace.w_runs
              /\ srcs' = srcs
              /\ watcher' # watcher => watcher'.pc = "idle" ]_vars

\* A change-triggered unit has passed on its third attempt, after two failed
\* verifications.
C15_Witness ==
  /\ watcher.pc = "while" /\ watcher.success
  /\ trace.w_calls = 3 /\ trace.w_runs = 3
\* C16 (write before verify): whenever a verification run is about to
\* start, on either thread and on a cache hit too, the destination of its
\* specification holds exactly the candidate being verified, no destination
\* changes while the run is under way, and when the unit is over (the loop
\* left after at least one attempt, or the cache-hit run returned) the
\* destination still holds the candidate verified last, passed or failed.
C16_WriteBeforeVerify ==
  /\ []( main.pc = "run" => srcs[test_path] = main.code )
  /\ []( watcher.pc \in {"run", "hit_run"}
           => srcs[watcher.path] = watcher.code )
  /\ []( (main.pc = "while" /\ main.attempts > 0)
           => srcs[test_path] = main.code )
  /\ []( ((watcher.pc = "while" /\ watcher.attempts > 0)
          \/ watcher.pc = "hit_return")
           => srcs[watcher.path] = watcher.code )
  /\ [][ (main.pc = "run" \/ watcher.pc \in {"run", "hit_run"})
           => srcs' = srcs ]_vars

\* A change-triggered unit has used up its attempts on a destination that an
\* earlier unit had written: the file holds the candidate that failed last.
C16_Witness ==
  /\ watcher.pc = "while" /\ ~watcher.success
  /\ watcher.attempts = max_attempts
  /\ DOMAIN cache # {}
  /\ srcs[watcher.path] = watcher.code
  /\ \E h \in DOMAIN cache : cache[h] # watcher.code
C18_NoSharedFeedback ==
  (main.pc = "write" /\ main.prompt.feedback)
    => trace.m_from \in {"initial", test_path}
C20_CacheSoundness ==
  [][ \A h \in DOMAIN cache' :
        (h \notin DOMAIN cache \/ cache'[h] # cache[h])
          => /\ watcher.pc = "run" /\ watcher'.success
             /\ cache'[h] \in { extract_code_from_response(r) : r \in Responses }
             /\ cache'[h] = srcs[watcher.path]
             /\ h = hash_file_content(tests[watcher.path]) ]_vars

====
